---- MODULE Spec2Model ----
(***************************************************************************)
(* The todo REST backend: the /api/todos router (routes/todos.js), the     *)
(* Todo model and its SQL statements (models/Todo.js), the todos table     *)
(* (config/database.js) and the validation middleware                      *)
(* (middleware/validation.js).  Requests are handled by async handlers     *)
(* that interleave at every awaited SQL statement; each statement is       *)
(* atomic.                                                                 *)
(***************************************************************************)
EXTENDS Integers, Sequences, FiniteSets, TLC

\* ------------------------------------------------------------------ bounds
\* number of uuids the generator hands out in one run
MaxTodos == 2
\* number of requests being handled at the same time
MaxInFlight == 2
\* number of seconds the clock (CURRENT_TIMESTAMP) advances in one run
MaxClock == 1
\* tokens issued in one run, and how far the issuer's clock is moved
MaxIssued == 2
MaxHalfDays == 3
MaxSeconds == 2

\* --------------------------------------------------------------- JS values
Undefined == "<undefined>"
Null == "<null>"
\* an id no uuid equals: req.params.id of no stored todo, body.id when absent
NoId == 0
\* a timestamp field that was never read from the database
NoTime == 0
NoUser == "<nobody>"

\* rows of the users table (registration is not part of the todo router)
Users == {"u1", "u2"}

\* the todo router: the todos table, the uuid generator, CURRENT_TIMESTAMP,
\* the requests in the handlers and the clients
VARIABLES todos, nextId, now, reqs, workload
\* the credential store: the users table and the User.create calls under way
VARIABLES users, regs
\* the token issuer: its clock, in seconds, and the tokens it has issued
VARIABLES clock, issued
\* the page: TodoManager.todos and the toggle handlers under way
VARIABLES local, toggles
\* the handlers of the page that delete, create and load todos
VARIABLES calls
\* the browser session: the token of ApiClient and localStorage and the user
\* of AuthManager; the router; the login, register or logout under way
VARIABLES session, nav, authCall

authVars == <<users, regs, clock, issued>>
navVars == <<session, nav, authCall>>
uiVars == <<local, toggles, calls, navVars>>
vars == <<todos, nextId, now, reqs, workload, authVars, uiVars>>

\* The clients of one run: "serial" clients wait for each answer before the
\* next request and send the full range of bodies and queries while the clock
\* runs; "overlapping" clients have up to MaxInFlight requests in the handlers
\* at once, all within one second, and send a narrower range; "faulty" runs
\* have one request at a time against a store whose statements can fail, with
\* the narrower range and a title of white space.
Workloads == {"serial", "overlapping", "faulty"}

Slots == 1..MaxInFlight
TodoIds == 1..MaxTodos

\* ----------------------------------------------------- session tokens (4.2)
NoToken == [sub |-> NoUser, state |-> "absent"]

Tokens ==
    {NoToken}
      \cup [sub : Users, state : {"valid"}]
      \cup {[sub |-> "u1", state |-> "expired"],
            [sub |-> "u2", state |-> "badsig"],
            [sub |-> NoUser, state |-> "malformed"],
            [sub |-> "ghost", state |-> "valid"]}

\* Token Issuer/Verifier.verify: the user id of the claim set, or a failure
verify(token) ==
    CASE token.state = "malformed" -> [ok |-> FALSE, why |-> "MALFORMED", userId |-> NoUser]
      [] token.state = "badsig" -> [ok |-> FALSE, why |-> "SIGNATURE_INVALID", userId |-> NoUser]
      [] token.state = "expired" -> [ok |-> FALSE, why |-> "EXPIRED", userId |-> NoUser]
      [] OTHER -> [ok |-> TRUE, why |-> "", userId |-> token.sub]

\* Authorization Gate: req.user.id, or NoUser when the request is rejected
authenticateToken(token) ==
    IF token = NoToken THEN NoUser
    ELSE IF ~verify(token).ok THEN NoUser
    ELSE IF verify(token).userId \notin Users THEN NoUser
    ELSE verify(token).userId

\* the gate registered after the route of GET /api/todos/:id
GateSkipsGet(method) == method # "GET"

\* router.use(authenticateToken): the routes the gate stands in front of
GateApplies(method) == TRUE

\* ------------------------------------------------------ request bodies, JS
\* JSON values of body.completed: booleans, strings, or the key left out
JsTrue == "b:true"
JsFalse == "b:false"

\* express-validator's toString of a field value
toString(v) ==
    CASE v = Undefined -> ""
      [] v = Null -> ""
      [] v = JsTrue -> "true"
      [] v = JsFalse -> "false"
      [] v = "s:true" -> "true"
      [] v = "s:false" -> "false"
      [] v = "s:1" -> "1"
      [] v = "s:0" -> "0"
      [] v = "s:yes" -> "yes"
      [] OTHER -> v

\* String.length of the titles and descriptions the model draws
StrLen(s) ==
    CASE s = "" -> 0
      [] s = " " -> 1
      [] s = "a" -> 1
      [] s = "b" -> 1
      [] s = "d" -> 1
      [] OTHER -> 2

\* String.prototype.trim
trim(s) == IF s = " " THEN "" ELSE s

\* Boolean(v) of a value read back from the completed column or set by a body
Boolean(v) == v \notin {Undefined, Null, JsFalse, "i:0"}

EmptyBody ==
    [title |-> Undefined, description |-> Undefined, completed |-> Undefined,
     id |-> NoId, user_id |-> NoUser]

\* the bodies POST /api/todos is sent
CreateBodies ==
    IF workload = "serial"
    THEN {[EmptyBody EXCEPT !.title = "a"],
          [EmptyBody EXCEPT !.title = "a", !.completed = JsTrue, !.id = 1,
                            !.user_id = "u2"],
          EmptyBody}
    ELSE IF workload = "faulty"
    THEN {[EmptyBody EXCEPT !.title = "a"],
          [EmptyBody EXCEPT !.title = " "],
          EmptyBody}
    ELSE {[EmptyBody EXCEPT !.title = "a"],
          EmptyBody}

\* the bodies PUT /api/todos/:id is sent
UpdateBodies ==
    IF workload = "serial"
    THEN {[EmptyBody EXCEPT !.completed = JsTrue],
          [EmptyBody EXCEPT !.completed = JsFalse],
          [EmptyBody EXCEPT !.completed = "s:true"],
          [EmptyBody EXCEPT !.title = "b", !.description = "d"],
          [EmptyBody EXCEPT !.completed = JsTrue, !.id = 2, !.user_id = "u2"],
          [EmptyBody EXCEPT !.completed = "s:yes"],
          EmptyBody}
    ELSE {[EmptyBody EXCEPT !.completed = JsTrue],
          [EmptyBody EXCEPT !.title = "b"],
          [EmptyBody EXCEPT !.completed = "s:yes"],
          EmptyBody}

\* ------------------------------------------------- middleware/validation.js
\* body('title').isLength({min: 1, max: 100}) on the value as sent
TitleMin == 1
TitleMax == 100
DescriptionMax == 500

titleOk(v) == StrLen(toString(v)) >= TitleMin /\ StrLen(toString(v)) <= TitleMax
descriptionOk(v) == StrLen(toString(v)) <= DescriptionMax
\* isBoolean() in its default, non-strict mode
isBoolean(v) == toString(v) \in {"true", "false", "1", "0"}

\* the sanitizers of a chain write the trimmed value back into req.body
sanitizeBody(body) ==
    [body EXCEPT
       !.title = IF @ = Undefined THEN @ ELSE trim(@),
       !.description = IF @ \in {Undefined, Null} THEN @ ELSE trim(@)]

validateTodoCreation(body) ==
    /\ titleOk(body.title)
    /\ body.description = Undefined \/ descriptionOk(body.description)

validateTodoUpdate(body) ==
    /\ body.title = Undefined \/ titleOk(body.title)
    /\ body.description = Undefined \/ descriptionOk(body.description)
    /\ body.completed = Undefined \/ isBoolean(body.completed)

\* a query parameter as sent: left out, not a number, or a number
QAbsent == [given |-> FALSE, nan |-> FALSE, n |-> 0]
QNaN == [given |-> TRUE, nan |-> TRUE, n |-> 0]
QNum(k) == [given |-> TRUE, nan |-> FALSE, n |-> k]

LimitMin == 1
LimitMax == 100
LimitDefault == 50
OffsetDefault == 0

Statuses == {"all", "completed", "pending"}

\* the queries GET /api/todos is sent
Queries ==
    IF workload = "serial"
    THEN {[status |-> Undefined, limit |-> QAbsent, offset |-> QAbsent],
          [status |-> "all", limit |-> QNum(1), offset |-> QNum(1)],
          [status |-> "all", limit |-> QNum(MaxTodos), offset |-> QNum(MaxTodos - 1)],
          [status |-> "pending", limit |-> QNum(1), offset |-> QAbsent],
          [status |-> "completed", limit |-> QNum(MaxTodos), offset |-> QNum(1)],
          [status |-> "done", limit |-> QAbsent, offset |-> QAbsent],
          [status |-> "all", limit |-> QNum(0), offset |-> QAbsent],
          [status |-> "all", limit |-> QNum(LimitMax + 1), offset |-> QAbsent],
          [status |-> "all", limit |-> QNaN, offset |-> QAbsent],
          [status |-> "all", limit |-> QAbsent, offset |-> QNum(0 - 1)]}
    ELSE {[status |-> Undefined, limit |-> QAbsent, offset |-> QAbsent],
          [status |-> "done", limit |-> QAbsent, offset |-> QAbsent]}

statusOk(q) == q.status = Undefined \/ q.status \in Statuses
\* a limit check without the upper end of the range
limitOkNoMax(q) == ~q.limit.given \/ (~q.limit.nan /\ q.limit.n >= LimitMin)
limitOk(q) == ~q.limit.given \/ (~q.limit.nan /\ q.limit.n >= LimitMin /\ q.limit.n <= LimitMax)
offsetOk(q) == ~q.offset.given \/ (~q.offset.nan /\ q.offset.n >= 0)

validateTodoQuery(q) == statusOk(q) /\ limitOk(q) /\ offsetOk(q)

\* req.query as validateTodoQuery leaves it for the handler
normalizeQuery(q) ==
    [status |-> q.status,
     limit |-> IF q.limit.given THEN q.limit.n ELSE LimitDefault,
     offset |-> IF q.offset.given THEN q.offset.n ELSE OffsetDefault]

NoQuery == [status |-> Undefined, limit |-> LimitDefault, offset |-> OffsetDefault]

\* ---------------------------------------------------------- the todos table
\* a value bound to the completed column (declared BOOLEAN, NUMERIC affinity):
\* booleans are bound as integers, text that is an integer literal becomes an
\* integer, any other text is stored as text
bindCompleted(v) ==
    CASE v = JsTrue -> "i:1"
      [] v = JsFalse -> "i:0"
      [] v = "s:1" -> "i:1"
      [] v = "s:0" -> "i:0"
      [] OTHER -> v

NullRow ==
    [id |-> NoId, user_id |-> NoUser, title |-> Undefined, description |-> Null,
     completed |-> JsFalse, created_at |-> NoTime, updated_at |-> NoTime]

\* new Todo(data)
Todo(data, uuid) ==
    [id |-> IF data.id = NoId THEN uuid ELSE data.id,
     user_id |-> data.user_id,
     title |-> data.title,
     description |-> IF data.description \in {Undefined, Null, ""} THEN Null ELSE data.description,
     completed |-> IF Boolean(data.completed) THEN data.completed ELSE JsFalse,
     created_at |-> data.created_at,
     updated_at |-> data.updated_at]

\* INSERT INTO todos (id, user_id, title, description, completed)
InsertTodo(store, todo, time) ==
    [i \in DOMAIN store \cup {todo.id} |->
       IF i = todo.id
       THEN [todo EXCEPT !.completed = bindCompleted(@),
                         !.created_at = time, !.updated_at = time]
       ELSE store[i]]

\* SELECT * FROM todos WHERE id = ?
findById(store, id) ==
    IF id \in DOMAIN store THEN Todo(store[id], NoId) ELSE NullRow

\* the WHERE clause of findByUserId and getCountByUserId
Matches(row, userId, status) ==
    /\ row.user_id = userId
    /\ status = "completed" => row.completed = "i:1"
    /\ status = "pending" => row.completed = "i:0"

MatchingIds(store, userId, status) ==
    {i \in DOMAIN store : Matches(store[i], userId, status)}

\* ORDER BY created_at DESC: every order of the rows the clause allows
Orderings(store, ids) ==
    {o \in [1..Cardinality(ids) -> ids] :
       /\ \A i, j \in DOMAIN o : i # j => o[i] # o[j]
       /\ \A i, j \in DOMAIN o : i < j => store[o[i]].created_at >= store[o[j]].created_at}

Min(a, b) == IF a < b THEN a ELSE b
Max(a, b) == IF a > b THEN a ELSE b

\* LIMIT ? OFFSET ? on an ordered result
LimitOffset(o, limit, offset) == SubSeq(o, offset + 1, Min(offset + limit, Len(o)))

\* Todo.findByUserId: the pages the statement can return
findByUserId(store, userId, options) ==
    LET status == IF options.status = Undefined THEN "all" ELSE options.status
    IN  {[k \in DOMAIN LimitOffset(o, options.limit, options.offset) |->
            Todo(store[LimitOffset(o, options.limit, options.offset)[k]], NoId)] :
         o \in Orderings(store, MatchingIds(store, userId, status))}

\* Todo.getCountByUserId
getCountByUserId(store, userId, statusArg) ==
    LET status == IF statusArg = Undefined THEN "all" ELSE statusArg
    IN  Cardinality(MatchingIds(store, userId, status))

\* the SET list Todo.update builds from the body
UpdateFields(updateData) ==
    {k \in {"title", "description", "completed"} : updateData[k] # Undefined}

\* an UPDATE that sets all three columns, supplied or not
UpdateTodoReplace(store, id, updateData, time) ==
    [i \in DOMAIN store |->
       IF i # id THEN store[i]
       ELSE [store[i] EXCEPT
               !.title = updateData.title,
               !.description =
                   IF updateData.description = Undefined THEN Null ELSE updateData.description,
               !.completed = bindCompleted(updateData.completed),
               !.updated_at = time]]

\* an UPDATE that stores the handler's copy when the row is gone (an upsert)
UpdateTodoUpsert(store, id, updateData, time) ==
    [i \in DOMAIN store \cup {id} |->
       IF i # id THEN store[i]
       ELSE [title |-> IF updateData.title # Undefined THEN updateData.title ELSE "a",
             description |-> Null,
             completed |-> bindCompleted(updateData.completed),
             id |-> id, user_id |-> "u1", created_at |-> time, updated_at |-> time]]

\* UPDATE todos SET ..., updated_at = CURRENT_TIMESTAMP WHERE id = ?
UpdateTodo(store, id, updateData, time) ==
    [i \in DOMAIN store |->
       IF i # id THEN store[i]
       ELSE [store[i] EXCEPT
               !.title = IF "title" \in UpdateFields(updateData) THEN updateData.title ELSE @,
               !.description =
                   IF "description" \in UpdateFields(updateData) THEN updateData.description ELSE @,
               !.completed =
                   IF "completed" \in UpdateFields(updateData)
                   THEN bindCompleted(updateData.completed) ELSE @,
               !.updated_at = time]]

\* a DELETE whose WHERE clause matches no row
DeleteTodoNothing(store, id) == store

\* DELETE FROM todos WHERE id = ?
DeleteTodo(store, id) == [i \in DOMAIN store \ {id} |-> store[i]]

\* Object.assign(this, updateData) at the end of Todo.update
Assign(todo, updateData) ==
    [todo EXCEPT
       !.title = IF updateData.title # Undefined THEN updateData.title ELSE @,
       !.description = IF updateData.description # Undefined THEN updateData.description ELSE @,
       !.completed = IF updateData.completed # Undefined THEN updateData.completed ELSE @,
       !.id = IF updateData.id # NoId THEN updateData.id ELSE @,
       !.user_id = IF updateData.user_id # NoUser THEN updateData.user_id ELSE @]

\* an ownership check that lets every caller through
belongsToAnyone(todo, userId) == todo.user_id = todo.user_id

\* todo.belongsToUser(userId)
belongsToUser(todo, userId) == todo.user_id = userId

\* todo.toJSON()
toJSON(todo) == [todo EXCEPT !.completed = Boolean(@)]

\* ------------------------------------------------------ the users table
\* what a registration sends
Usernames == {"alice", "bob"}
Emails == {"a@x.com", "b@x.com"}
Passwords == {"secret1", "hunter22"}

\* the salts bcrypt can draw for one hash
Salts == {"saltA", "saltB"}

\* bcrypt.hash(password, saltRounds): the salt it drew and the digest
bcryptHash(password, salt) ==
    CASE password = "secret1" /\ salt = "saltA" -> "$2b$10$saltA.digestA1"
      [] password = "secret1" /\ salt = "saltB" -> "$2b$10$saltB.digestB1"
      [] password = "hunter22" /\ salt = "saltA" -> "$2b$10$saltA.digestA2"
      [] OTHER -> "$2b$10$saltB.digestB2"

\* the uuids User.create draws, in the order it draws them
UuidSeq == <<"u1", "u2", "u3", "u4", "u5">>
UserIds == {UuidSeq[i] : i \in DOMAIN UuidSeq}

\* uuidv4(): a value that is not in use
uuidv4(used) ==
    UuidSeq[CHOOSE i \in DOMAIN UuidSeq :
              UuidSeq[i] \notin used /\ \A j \in 1..(i - 1) : UuidSeq[j] \in used]

\* new User(data)
User(data, uuid) ==
    [id |-> IF data.id = Undefined THEN uuid ELSE data.id,
     username |-> data.username, email |-> data.email,
     password_hash |-> data.password_hash,
     created_at |-> data.created_at, updated_at |-> data.updated_at]

\* a serialization that copies every field of the User
UserToJSONAll(user) == user

\* user.toJSON()
UserToJSON(user) ==
    [id |-> user.id, username |-> user.username, email |-> user.email,
     created_at |-> user.created_at, updated_at |-> user.updated_at]

NoUserRow ==
    [id |-> Undefined, username |-> Undefined, email |-> Undefined,
     password_hash |-> Undefined, created_at |-> NoTime, updated_at |-> NoTime]

\* SELECT * FROM users WHERE email = ? / WHERE username = ?
findByEmail(table, email) == {table[k] : k \in {i \in DOMAIN table : table[i].email = email}}
findByUsername(table, username) ==
    {table[k] : k \in {i \in DOMAIN table : table[i].username = username}}

emailExists(table, email) == findByEmail(table, email) # {}
usernameExists(table, username) == findByUsername(table, username) # {}

\* a users table that checks the primary key only
PrimaryKeyOnly(table, user) == user.id \in DOMAIN table

\* id TEXT PRIMARY KEY, username TEXT UNIQUE, email TEXT UNIQUE: the INSERT
\* fails when one of them is taken
UniqueViolation(table, user) ==
    \/ user.id \in DOMAIN table
    \/ usernameExists(table, user.username)
    \/ emailExists(table, user.email)

\* INSERT INTO users (id, username, email, password_hash)
InsertUser(table, user, time) ==
    [k \in DOMAIN table \cup {user.id} |->
       IF k = user.id THEN [user EXCEPT !.created_at = time, !.updated_at = time]
       ELSE table[k]]

\* the rows of the users whose tokens the todo router is sent
StoredUsers ==
    [u \in Users |->
       [id |-> u, username |-> IF u = "u1" THEN "alice" ELSE "bob",
        email |-> IF u = "u1" THEN "a@x.com" ELSE "b@x.com",
        password_hash |-> bcryptHash("secret1", "saltA"),
        created_at |-> 1, updated_at |-> 1]]

\* a User.create call: idle, waiting for its INSERT, or rejected
NoCall == [pc |-> "idle", user |-> NoUserRow, err |-> ""]

\* a JS number and a JS string, kept apart as === keeps them apart
Num(v) == [t |-> "number", v |-> v]
Str(v) == [t |-> "string", v |-> v]
NaN == Num("NaN")

\* a === b for numbers and strings
StrictEq(a, b) == a.t = b.t /\ a.v = b.v /\ a # NaN

\* a toggle handler of the page that is not running; was is the completed
\* value the clicked todo had when the handler started, raced tells that
\* another toggle of the same todo was under way while this one was
NoToggle ==
    [pc |-> "idle", dataset |-> Undefined, todoId |-> NaN,
     completed |-> Undefined, was |-> Undefined, raced |-> FALSE]

\* the parts of the system a specification leaves alone
AuthAtRest ==
    /\ users = StoredUsers
    /\ regs = [s \in Slots |-> NoCall]
    /\ clock = 0
    /\ issued = {}

\* a todo of the page that is no todo
NoLocalTodo == [id |-> NaN, completed |-> Undefined, created_at |-> NoTime]

\* a delete, create or load handler of the page that is not running
NoHandler == [pc |-> "idle", todo |-> NoLocalTodo, todoId |-> NaN]

\* no token in ApiClient or localStorage, no user in AuthManager
NoSession == [apiToken |-> Null, stored |-> Null, currentUser |-> Null]

\* the router with an empty hash, no hashchange event queued and no handler
\* run yet; ran is the path whose handler the last route change invoked, Null
\* when it invoked none
NoNav == [hash |-> "", pending |-> FALSE, currentRoute |-> Null, ran |-> Null]

\* an answer that carries nothing
NoResponse ==
    [ok |-> FALSE, token |-> Undefined, user |-> Undefined,
     data |-> [user |-> Undefined, token |-> Undefined]]

\* no login, register or logout under way
NoAuthCall == [pc |-> "idle", response |-> NoResponse]

NavAtRest ==
    /\ session = NoSession
    /\ nav = NoNav
    /\ authCall = NoAuthCall

ListAtRest == calls = [s \in Slots |-> NoHandler]

UiAtRest ==
    /\ local = <<>>
    /\ toggles = [s \in Slots |-> NoToggle]
    /\ ListAtRest
    /\ NavAtRest

\* ------------------------------------------------------------ the requests
NoPagination == [total |-> 0, limit |-> 0, offset |-> 0, hasMore |-> FALSE]

\* a request being handled: what the handler holds between two awaits
Idle ==
    [pc |-> "idle", method |-> "", token |-> NoToken, user |-> NoUser, id |-> NoId,
     body |-> EmptyBody, query |-> NoQuery, todo |-> NullRow, page |-> <<>>,
     err |-> ""]

\* no response: the handler is waiting for a statement (status 0)
NoRes ==
    [status |-> 0, code |-> "", stage |-> "", todos |-> <<>>,
     pagination |-> NoPagination]

\* res.status(status).json(...); stage is the last middleware or handler that
\* ran for the request
Respond(status, code, stage, list, pagination) ==
    [status |-> status, code |-> code, stage |-> stage, todos |-> list,
     pagination |-> pagination]

Reply(status, code, stage) == Respond(status, code, stage, <<>>, NoPagination)

InFlight(s) == reqs[s].pc # "idle"

Init ==
    /\ todos = [i \in {} |-> NullRow]
    /\ nextId = 1
    /\ now = 1
    /\ reqs = [s \in Slots |-> Idle]
    /\ workload \in Workloads
    /\ AuthAtRest
    /\ UiAtRest

\* req.user as the gate leaves it
ReqUser(method, token) ==
    IF GateApplies(method) THEN authenticateToken(token) ELSE NoUser

\* a router whose handlers run without the route's validator
ArriveUnvalidated(method, token, valid) ==
    IF GateApplies(method) /\ authenticateToken(token) = NoUser
    THEN Reply(401, "UNAUTHENTICATED", "gate")
    ELSE IF ReqUser(method, token) = NoUser
    THEN Reply(500, "ERROR", "handler")
    ELSE NoRes

\* A request arrives at the router: the gate, then the route's validator, then
\* the head of the handler.  Arrive is the response of a request that is turned
\* away before the handler's first SQL statement, or NoRes when it gets there.
Arrive(method, token, valid) ==
    IF GateApplies(method) /\ authenticateToken(token) = NoUser
    THEN Reply(401, "UNAUTHENTICATED", "gate")
    ELSE IF ~valid
    THEN Reply(400, "VALIDATION_ERROR", "validate")
    ELSE IF ReqUser(method, token) = NoUser
    \* req.user.id throws inside the handler's try block
    THEN Reply(500, "ERROR", "handler")
    ELSE NoRes

\* the handler instance a new request gets
FreeSlot(s) ==
    /\ ~InFlight(s)
    /\ \A t \in Slots : t < s => InFlight(t)
    /\ workload # "overlapping" => \A t \in Slots : ~InFlight(t)

\* ----------------------------------------------------------- GET /api/todos
\* the request as the handler holds it after Todo.findByUserId returned page
ListRequest(token, query, page) ==
    [Idle EXCEPT !.pc = "list:count", !.method = "LIST", !.token = token,
                 !.user = ReqUser("LIST", token), !.query = normalizeQuery(query),
                 !.page = page]

\* calculatePagination of the helpers
calculatePagination(total, limit, offset) ==
    [total |-> total, limit |-> limit, offset |-> offset,
     currentPage |-> (offset \div limit) + 1,
     totalPages |-> (total + limit - 1) \div limit,
     hasNext |-> (offset + limit) < total,
     hasPrev |-> offset > 0,
     hasMore |-> (offset + limit) < total]

\* a handler that reports one more page when the last one is exactly full
ListAnswerInclusive(r) ==
    LET totalCount == getCountByUserId(todos, r.user, r.query.status)
    IN  Respond(200, "", "handler",
                [k \in DOMAIN r.page |-> toJSON(r.page[k])],
                [total |-> totalCount, limit |-> r.query.limit,
                 offset |-> r.query.offset,
                 hasMore |-> (r.query.offset + r.query.limit) <= totalCount])

\* the response the handler sends after Todo.getCountByUserId
ListAnswer(r) ==
    LET totalCount == getCountByUserId(todos, r.user, r.query.status)
    IN  Respond(200, "", "handler",
                [k \in DOMAIN r.page |-> toJSON(r.page[k])],
                [total |-> totalCount, limit |-> r.query.limit,
                 offset |-> r.query.offset,
                 hasMore |-> (r.query.offset + r.query.limit) < totalCount])

\* the gate, validateTodoQuery and Todo.findByUserId
RequestList(s) ==
    \E token \in Tokens, query \in Queries :
       /\ FreeSlot(s)
       /\ IF Arrive("LIST", token, validateTodoQuery(query)) # NoRes
          THEN UNCHANGED reqs
          ELSE \E page \in findByUserId(todos, ReqUser("LIST", token), normalizeQuery(query)) :
                  reqs' = [reqs EXCEPT ![s] = ListRequest(token, query, page)]
       /\ UNCHANGED <<todos, nextId, now, workload, authVars, uiVars>>

\* Todo.getCountByUserId and the response
ListCount(s) ==
    /\ reqs[s].pc = "list:count"
    /\ ListAnswer(reqs[s]).status = 200
    /\ reqs' = [reqs EXCEPT ![s] = Idle]
    /\ UNCHANGED <<todos, nextId, now, workload, authVars, uiVars>>

\* ---------------------------------------------------------- POST /api/todos
\* the whole body passed on to Todo.create
CreateDataFromBody(body, userId) ==
    [id |-> NoId, user_id |-> IF body.user_id # NoUser THEN body.user_id ELSE userId,
     title |-> body.title, description |-> body.description,
     completed |-> body.completed, created_at |-> NoTime, updated_at |-> NoTime]

\* a create that takes the owner from the body alone
CreateDataBodyOwner(body, userId) ==
    [id |-> NoId, user_id |-> body.user_id, title |-> body.title,
     description |-> body.description, completed |-> Undefined,
     created_at |-> NoTime, updated_at |-> NoTime]

\* the object literal router.post('/') passes to Todo.create
CreateData(body, userId) ==
    [id |-> NoId, user_id |-> userId, title |-> body.title,
     description |-> body.description, completed |-> Undefined,
     created_at |-> NoTime, updated_at |-> NoTime]

\* new Todo(todoData) in Todo.create, with the uuid it draws
CreatedTodo(token, body) ==
    Todo(CreateData(sanitizeBody(body), ReqUser("POST", token)), nextId)

\* the response to POST /api/todos
CreateAnswer(token, body) ==
    IF Arrive("POST", token, validateTodoCreation(body)) # NoRes
    THEN Arrive("POST", token, validateTodoCreation(body))
    ELSE Respond(201, "", "handler", <<toJSON(CreatedTodo(token, body))>>, NoPagination)

\* the gate, validateTodoCreation and Todo.create
RequestCreate(s) ==
    \E token \in Tokens, body \in CreateBodies :
       /\ FreeSlot(s)
       /\ nextId <= MaxTodos
       /\ IF CreateAnswer(token, body).status = 201
          THEN /\ todos' = InsertTodo(todos, CreatedTodo(token, body), now)
               /\ nextId' = nextId + 1
          ELSE UNCHANGED <<todos, nextId>>
       /\ UNCHANGED <<reqs, now, workload, authVars, uiVars>>

\* ------------------------------------------------------- /api/todos/:id
\* the two checks in the other order
LookupOwnerFirst(todo, userId) ==
    IF ~belongsToUser(todo, userId) THEN Reply(403, "ACCESS_DENIED", "handler")
    ELSE IF todo = NullRow THEN Reply(404, "TODO_NOT_FOUND", "handler")
    ELSE NoRes

\* the lookup and the two checks GET, PUT and DELETE /api/todos/:id start with:
\* the response they end the request with, or NoRes to go on
Lookup(todo, userId) ==
    IF todo = NullRow THEN Reply(404, "TODO_NOT_FOUND", "handler")
    ELSE IF ~belongsToUser(todo, userId) THEN Reply(403, "ACCESS_DENIED", "handler")
    ELSE NoRes

\* the response to GET /api/todos/:id
GetAnswer(token, id) ==
    IF Arrive("GET", token, TRUE) # NoRes THEN Arrive("GET", token, TRUE)
    ELSE IF Lookup(findById(todos, id), ReqUser("GET", token)) # NoRes
    THEN Lookup(findById(todos, id), ReqUser("GET", token))
    ELSE Respond(200, "", "handler", <<toJSON(findById(todos, id))>>, NoPagination)

\* the gate and the handler of GET /api/todos/:id; it writes nothing
RequestGet(s) ==
    \E token \in Tokens, id \in TodoIds :
       /\ FreeSlot(s)
       /\ GetAnswer(token, id) # NoRes
       /\ UNCHANGED vars

\* PUT /api/todos/:id up to the end of Todo.findById: the response when the
\* request ends there, or NoRes when the UPDATE is to run.  Todo.update returns
\* at once, without a statement, when the body supplies no field.
UpdateArrive(token, id, body) ==
    IF Arrive("PUT", token, validateTodoUpdate(body)) # NoRes
    THEN Arrive("PUT", token, validateTodoUpdate(body))
    ELSE IF Lookup(findById(todos, id), ReqUser("PUT", token)) # NoRes
    THEN Lookup(findById(todos, id), ReqUser("PUT", token))
    ELSE IF UpdateFields(sanitizeBody(body)) = {}
    THEN Respond(200, "", "handler",
                 <<toJSON(Assign(findById(todos, id), sanitizeBody(body)))>>, NoPagination)
    ELSE NoRes

\* the request as the handler holds it while the UPDATE is queued
UpdateRequest(token, id, body) ==
    [Idle EXCEPT !.pc = "put:update", !.method = "PUT", !.token = token,
                 !.user = ReqUser("PUT", token), !.id = id,
                 !.body = sanitizeBody(body), !.todo = findById(todos, id)]

\* the response after the UPDATE statement
UpdateAnswer(r) ==
    Respond(200, "", "handler", <<toJSON(Assign(r.todo, r.body))>>, NoPagination)

RequestUpdate(s) ==
    \E token \in Tokens, id \in TodoIds, body \in UpdateBodies :
       /\ FreeSlot(s)
       /\ IF UpdateArrive(token, id, body) # NoRes
          THEN UNCHANGED reqs
          ELSE reqs' = [reqs EXCEPT ![s] = UpdateRequest(token, id, body)]
       /\ UNCHANGED <<todos, nextId, now, workload, authVars, uiVars>>

\* the UPDATE statement of Todo.update and the response
UpdateRun(s) ==
    /\ reqs[s].pc = "put:update"
    /\ UpdateAnswer(reqs[s]).status = 200
    /\ todos' = UpdateTodo(todos, reqs[s].todo.id, reqs[s].body, now)
    /\ reqs' = [reqs EXCEPT ![s] = Idle]
    /\ UNCHANGED <<nextId, now, workload, authVars, uiVars>>

\* DELETE /api/todos/:id up to the end of Todo.findById
DeleteArrive(token, id) ==
    IF Arrive("DELETE", token, TRUE) # NoRes THEN Arrive("DELETE", token, TRUE)
    ELSE Lookup(findById(todos, id), ReqUser("DELETE", token))

\* the request as the handler holds it while the DELETE is queued
DeleteRequest(token, id) ==
    [Idle EXCEPT !.pc = "delete:run", !.method = "DELETE", !.token = token,
                 !.user = ReqUser("DELETE", token), !.id = id,
                 !.todo = findById(todos, id)]

\* the response after the DELETE statement
DeleteAnswer(r) == Reply(200, "", "handler")

RequestDelete(s) ==
    \E token \in Tokens, id \in TodoIds :
       /\ FreeSlot(s)
       /\ IF DeleteArrive(token, id) # NoRes
          THEN UNCHANGED reqs
          ELSE reqs' = [reqs EXCEPT ![s] = DeleteRequest(token, id)]
       /\ UNCHANGED <<todos, nextId, now, workload, authVars, uiVars>>

\* the DELETE statement of Todo.delete and the response
DeleteRun(s) ==
    /\ reqs[s].pc = "delete:run"
    /\ DeleteAnswer(reqs[s]).status = 200
    /\ todos' = DeleteTodo(todos, reqs[s].todo.id)
    /\ reqs' = [reqs EXCEPT ![s] = Idle]
    /\ UNCHANGED <<nextId, now, workload, authVars, uiVars>>

\* ------------------------------------------------- statements that fail
\* the errors sqlite3 hands to the callback of a statement
StoreErrors == {"SQLITE_BUSY: database is locked", "SQLITE_IOERR: disk I/O error"}

Methods == {"LIST", "POST", "GET", "PUT", "DELETE"}

\* a catch block that passes the error on to the caller
ErrorBodyLeaky(method, err) ==
    [success |-> FALSE, message |-> err, code |-> "ERROR"]

\* the body each handler's catch block sends
ErrorBody(method, err) ==
    [success |-> FALSE,
     message |->
        CASE method = "LIST" -> "Internal server error while retrieving todos"
          [] method = "POST" -> "Internal server error while creating todo"
          [] method = "GET" -> "Internal server error while retrieving todo"
          [] method = "PUT" -> "Internal server error while updating todo"
          [] OTHER -> "Internal server error while deleting todo",
     code |->
        CASE method = "LIST" -> "GET_TODOS_ERROR"
          [] method = "POST" -> "CREATE_TODO_ERROR"
          [] method = "GET" -> "GET_TODO_ERROR"
          [] method = "PUT" -> "UPDATE_TODO_ERROR"
          [] OTHER -> "DELETE_TODO_ERROR"]

\* the request as the handler holds it when an awaited statement rejected
Caught(method, token, err) ==
    [Idle EXCEPT !.pc = "catch", !.method = method, !.token = token,
                 !.user = ReqUser(method, token), !.err = err]

\* res.status(500).json(...) of the catch block
CatchAnswer(r) == Reply(500, ErrorBody(r.method, r.err).code, "handler")

\* a request passes the gate and its validator, and the first statement of its
\* handler (findByUserId, the INSERT, findById) fails
RequestFails(s) ==
    \E method \in Methods, token \in Tokens, err \in StoreErrors :
       /\ workload = "faulty"
       /\ FreeSlot(s)
       /\ Arrive(method, token, TRUE) = NoRes
       /\ reqs' = [reqs EXCEPT ![s] = Caught(method, token, err)]
       /\ UNCHANGED <<todos, nextId, now, workload, authVars, uiVars>>

\* the statement a handler is waiting for (getCountByUserId, the UPDATE, the
\* DELETE) fails
StatementFails(s) ==
    \E err \in StoreErrors :
       /\ workload = "faulty"
       /\ reqs[s].pc \in {"list:count", "put:update", "delete:run"}
       /\ reqs' = [reqs EXCEPT ![s] = Caught(reqs[s].method, reqs[s].token, err)]
       /\ UNCHANGED <<todos, nextId, now, workload, authVars, uiVars>>

\* the catch block logs the error and answers
Catch(s) ==
    /\ reqs[s].pc = "catch"
    /\ CatchAnswer(reqs[s]).status = 500
    /\ reqs' = [reqs EXCEPT ![s] = Idle]
    /\ UNCHANGED <<todos, nextId, now, workload, authVars, uiVars>>

\* a second passes: CURRENT_TIMESTAMP moves on
Tick ==
    /\ workload = "serial"
    /\ \A s \in Slots : ~InFlight(s)
    /\ now <= MaxClock
    /\ now' = now + 1
    /\ UNCHANGED <<todos, nextId, reqs, workload, authVars, uiVars>>

Next ==
    \/ \E s \in Slots : RequestList(s)
    \/ \E s \in Slots : ListCount(s)
    \/ \E s \in Slots : RequestCreate(s)
    \/ \E s \in Slots : RequestGet(s)
    \/ \E s \in Slots : RequestUpdate(s)
    \/ \E s \in Slots : UpdateRun(s)
    \/ \E s \in Slots : RequestDelete(s)
    \/ \E s \in Slots : DeleteRun(s)
    \/ \E s \in Slots : RequestFails(s)
    \/ \E s \in Slots : StatementFails(s)
    \/ \E s \in Slots : Catch(s)
    \/ Tick

Spec == Init /\ [][Next]_vars

\* ------------------------------------------------------ User.create calls
\* the todo router while registrations, tokens or the page are looked at
TodosAtRest ==
    /\ todos = [i \in {} |-> NullRow]
    /\ nextId = 1
    /\ now = 1
    /\ reqs = [s \in Slots |-> Idle]
    /\ workload = "serial"

InitUsers ==
    /\ users = [u \in {} |-> NoUserRow]
    /\ regs = [s \in Slots |-> NoCall]
    /\ clock = 0
    /\ issued = {}
    /\ TodosAtRest
    /\ UiAtRest

\* the ids that are stored or that a call under way has drawn
UsedUserIds == DOMAIN users \cup {regs[s].user.id : s \in Slots}

\* User.create up to db.run: the hash, then new User with a fresh uuid
CreateUserStart(s) ==
    \E username \in Usernames, email \in Emails, password \in Passwords,
       salt \in Salts :
       /\ regs[s].pc = "idle"
       /\ \A t \in Slots : t < s => regs[t].pc # "idle"
       /\ UserIds \ UsedUserIds # {}
       /\ regs' = [regs EXCEPT ![s] =
                     [pc |-> "insert",
                      user |-> User([id |-> Undefined, username |-> username,
                                     email |-> email,
                                     password_hash |-> bcryptHash(password, salt),
                                     created_at |-> NoTime, updated_at |-> NoTime],
                                    uuidv4(UsedUserIds)),
                      err |-> ""]]
       /\ UNCHANGED <<users, clock, issued, todos, nextId, now, reqs, workload, uiVars>>

\* the INSERT of User.create: resolve(user), or reject(err) when a unique
\* column is taken
CreateUserInsert(s) ==
    /\ regs[s].pc = "insert"
    /\ IF UniqueViolation(users, regs[s].user)
       THEN /\ regs' = [regs EXCEPT ![s].pc = "rejected",
                                    ![s].err = "SQLITE_CONSTRAINT: UNIQUE constraint failed"]
            /\ UNCHANGED users
       ELSE /\ users' = InsertUser(users, regs[s].user, now)
            /\ regs' = [regs EXCEPT ![s] = NoCall]
    /\ UNCHANGED <<clock, issued, todos, nextId, now, reqs, workload, uiVars>>

\* the caller of a rejected User.create goes on
CreateUserRejected(s) ==
    /\ regs[s].pc = "rejected"
    /\ regs' = [regs EXCEPT ![s] = NoCall]
    /\ UNCHANGED <<users, clock, issued, todos, nextId, now, reqs, workload, uiVars>>

NextUsers ==
    \/ \E s \in Slots : CreateUserStart(s)
    \/ \E s \in Slots : CreateUserInsert(s)
    \/ \E s \in Slots : CreateUserRejected(s)

SpecUsers == InitUsers /\ [][NextUsers]_vars

\* ------------------------------------------------------- session tokens
\* 24-hour token expiration, in seconds
TokenLifetime == 24 * 60 * 60
HalfDay == 12 * 60 * 60

\* a verifier that does not look at exp
NeverExpires(token, time) == {"valid"}

\* what the signature and the exp claim of an issued token make of it at a
\* time; the description leaves the instant time = exp to the verifier
StateAt(token, time) ==
    IF time < token.exp THEN {"valid"}
    ELSE IF time > token.exp THEN {"expired"}
    ELSE {"valid", "expired"}

\* verify(token) at a time
verifyAt(token, time) ==
    {verify([sub |-> token.sub, state |-> st]) : st \in StateAt(token, time)}

InitTokens ==
    /\ clock = 0
    /\ issued = {}
    /\ users = StoredUsers
    /\ regs = [s \in Slots |-> NoCall]
    /\ TodosAtRest
    /\ UiAtRest

\* issue(userId): the claim set {sub, iat, exp = iat + 24h}
Issue(userId) ==
    /\ Cardinality(issued) < MaxIssued
    /\ userId \in DOMAIN users
    /\ issued' = issued \cup {[sub |-> userId, iat |-> clock,
                                exp |-> clock + TokenLifetime]}
    /\ UNCHANGED <<clock, users, regs, todos, nextId, now, reqs, workload, uiVars>>

\* verify(token): reads the token and the clock
Verify(token) ==
    /\ token \in issued
    /\ verifyAt(token, clock) # {}
    /\ UNCHANGED vars

\* the clock moves by a second
Second ==
    /\ clock % HalfDay < MaxSeconds
    /\ clock' = clock + 1
    /\ UNCHANGED <<issued, users, regs, todos, nextId, now, reqs, workload, uiVars>>

\* the clock moves by twelve hours
Hours ==
    /\ clock + HalfDay < (MaxHalfDays + 1) * HalfDay
    /\ clock' = clock + HalfDay
    /\ UNCHANGED <<issued, users, regs, todos, nextId, now, reqs, workload, uiVars>>

NextTokens ==
    \/ \E userId \in Users : Issue(userId)
    \/ \E token \in issued : Verify(token)
    \/ Second
    \/ Hours

SpecTokens == InitTokens /\ [][NextTokens]_vars

\* ---------------------------------------------------------------- the page
\* todos the page holds at once
MaxLocal == 2

\* the ids of the todos an answer of GET /todos lists: uuids, as Todo.create
\* draws them, and a number, as the page's parseInt and api.js expect
LocalIds == {Str("3f2a"), Str("b7e1"), Num("7")}

\* the seconds todos were created in
LocalTimes == {1, 2}

\* the todos of an answer of GET /todos
LocalTodo == [id : LocalIds, completed : {"true", "false"}, created_at : LocalTimes]

\* ORDER BY created_at DESC
NewestFirst(list) ==
    \A i, j \in DOMAIN list : i < j => list[i].created_at >= list[j].created_at

\* the arrays api.getTodos() resolves to
LocalLists ==
    {l \in UNION {[1..n -> LocalTodo] : n \in 0..MaxLocal} :
       /\ \A i, j \in DOMAIN l : i # j => l[i].id # l[j].id
       /\ NewestFirst(l)}

\* data-todo-id="${todo.id}"
DataTodoId(todo) == todo.id.v

\* parseInt(string): the leading digits, or NaN
parseInt(string) ==
    CASE string = "3f2a" -> Num("3")
      [] string = "7" -> Num("7")
      [] OTHER -> NaN

\* event.target.checked of a div.todo-checkbox
Checked(dataset) == Undefined

\* !value
Not(value) == IF value = "true" THEN "false" ELSE "true"

\* this.todos.find(t => t.id === todoId): the index of the first match, or 0
Find(list, todoId) ==
    IF \E i \in DOMAIN list : StrictEq(list[i].id, todoId)
    THEN CHOOSE i \in DOMAIN list :
           /\ StrictEq(list[i].id, todoId)
           /\ \A j \in 1..(i - 1) : ~StrictEq(list[j].id, todoId)
    ELSE 0

\* todo.completed = value when find gave a todo
SetCompleted(list, todoId, value) ==
    IF Find(list, todoId) = 0 THEN list
    ELSE [list EXCEPT ![Find(list, todoId)].completed = value]

InitPage ==
    /\ local = <<>>
    /\ toggles = [s \in Slots |-> NoToggle]
    /\ ListAtRest
    /\ NavAtRest
    /\ TodosAtRest
    /\ AuthAtRest

Toggling(s) == toggles[s].pc # "idle"

\* loadTodos: this.todos = await api.getTodos()
LoadTodos ==
    /\ local = <<>>
    /\ \A s \in Slots : ~Toggling(s)
    /\ \E l \in LocalLists : l # <<>> /\ local' = l
    /\ UNCHANGED <<toggles, todos, nextId, now, reqs, workload, authVars, calls, navVars>>

\* handleToggleTodo from the click on the checkbox of local[i] up to the await
\* of api.toggleTodo
Click(s, i) ==
    /\ ~Toggling(s)
    /\ \A t \in Slots : t < s => Toggling(t)
    /\ i \in DOMAIN local
    /\ toggles' =
         [t \in Slots |->
            IF t = s
            THEN [pc |-> "await", dataset |-> DataTodoId(local[i]),
                  todoId |-> parseInt(DataTodoId(local[i])),
                  completed |-> Checked(DataTodoId(local[i])),
                  was |-> local[i].completed,
                  raced |-> \E u \in Slots :
                               /\ toggles[u].pc # "idle"
                               /\ toggles[u].dataset = DataTodoId(local[i])]
            ELSE IF toggles[t].pc # "idle" /\ toggles[t].dataset = DataTodoId(local[i])
            THEN [toggles[t] EXCEPT !.raced = TRUE]
            ELSE toggles[t]]
    /\ local' = SetCompleted(local, parseInt(DataTodoId(local[i])),
                             Checked(DataTodoId(local[i])))
    /\ UNCHANGED <<todos, nextId, now, reqs, workload, authVars, calls, navVars>>

\* api.toggleTodo resolves: the handler returns
ToggleOk(s) ==
    /\ toggles[s].pc = "await"
    /\ toggles' = [toggles EXCEPT ![s] = NoToggle]
    /\ UNCHANGED <<local, todos, nextId, now, reqs, workload, authVars, calls, navVars>>

\* api.toggleTodo rejects: the catch block
ToggleFail(s) ==
    /\ toggles[s].pc = "await"
    /\ local' = SetCompleted(local, toggles[s].todoId, Not(toggles[s].completed))
    /\ toggles' = [toggles EXCEPT ![s] = NoToggle]
    /\ UNCHANGED <<todos, nextId, now, reqs, workload, authVars, calls, navVars>>

NextPage ==
    \/ LoadTodos
    \/ \E s \in Slots, i \in 1..MaxLocal : Click(s, i)
    \/ \E s \in Slots : ToggleOk(s)
    \/ \E s \in Slots : ToggleFail(s)

SpecPage == InitPage /\ [][NextPage]_vars

\* ------------------------------------------- the page: delete, create, load
\* this.todos.filter(t => t.id !== todoId)
FilterOut(list, todoId) ==
    LET keep(t) == ~StrictEq(t.id, todoId) IN SelectSeq(list, keep)

\* this.todos.sort((a, b) => new Date(b.created_at) - new Date(a.created_at)):
\* a stable sort, newest first
RECURSIVE Sort(_)
Sort(list) ==
    IF list = <<>> THEN <<>>
    ELSE LET newest == CHOOSE m \in {list[i].created_at : i \in DOMAIN list} :
                          \A i \in DOMAIN list : list[i].created_at <= m
             is(t) == t.created_at = newest
             isNot(t) == t.created_at # newest
         IN  SelectSeq(list, is) \o Sort(SelectSeq(list, isNot))

InitList ==
    /\ local = <<>>
    /\ calls = [s \in Slots |-> NoHandler]
    /\ toggles = [s \in Slots |-> NoToggle]
    /\ NavAtRest
    /\ TodosAtRest
    /\ AuthAtRest

Calling(s) == calls[s].pc # "idle"

FreeHandler(s) == ~Calling(s) /\ \A t \in Slots : t < s => Calling(t)

\* loadTodos up to the await of api.getTodos; init and handleTodosRoute call
\* it, the route only while the list is empty
LoadStart(s) ==
    /\ FreeHandler(s)
    /\ Len(local) = 0
    /\ calls' = [calls EXCEPT ![s] = [NoHandler EXCEPT !.pc = "load"]]
    /\ UNCHANGED <<local, toggles, todos, nextId, now, reqs, workload, authVars, navVars>>

\* api.getTodos resolves and this.todos is replaced, or it rejects
LoadDone(s) ==
    /\ calls[s].pc = "load"
    /\ \/ \E l \in LocalLists : local' = l
       \/ UNCHANGED local
    /\ calls' = [calls EXCEPT ![s] = NoHandler]
    /\ UNCHANGED <<toggles, todos, nextId, now, reqs, workload, authVars, navVars>>

\* handleCreateTodo up to the await of api.createTodo; the call holds the todo
\* the server answers with, whose id no todo of the page has yet
CreateSubmit(s) ==
    /\ FreeHandler(s)
    /\ Len(local) < MaxLocal
    /\ \E id \in LocalIds, time \in LocalTimes :
          /\ \A i \in DOMAIN local : local[i].id # id /\ local[i].created_at <= time
          /\ \A t \in Slots : calls[t].pc = "create" => calls[t].todo.id # id
          /\ calls' = [calls EXCEPT ![s] =
                         [pc |-> "create",
                          todo |-> [id |-> id, completed |-> "false", created_at |-> time],
                          todoId |-> NaN]]
    /\ UNCHANGED <<local, toggles, todos, nextId, now, reqs, workload, authVars, navVars>>

\* api.createTodo resolves: this.todos.unshift(newTodo); or it rejects
CreateDone(s) ==
    /\ calls[s].pc = "create"
    /\ \/ local' = <<calls[s].todo>> \o local
       \/ UNCHANGED local
    /\ calls' = [calls EXCEPT ![s] = NoHandler]
    /\ UNCHANGED <<toggles, todos, nextId, now, reqs, workload, authVars, navVars>>

\* handleDeleteTodo from the click on the delete button of local[i], confirmed,
\* up to the await of api.deleteTodo; it returns at once when find gives no todo
DeleteClick(s, i) ==
    /\ FreeHandler(s)
    /\ i \in DOMAIN local
    /\ LET todoId == parseInt(DataTodoId(local[i]))
       IN  IF Find(local, todoId) = 0
           THEN UNCHANGED <<local, calls>>
           ELSE /\ local' = FilterOut(local, todoId)
                /\ calls' = [calls EXCEPT ![s] =
                               [pc |-> "delete", todo |-> local[Find(local, todoId)],
                                todoId |-> todoId]]
    /\ UNCHANGED <<toggles, todos, nextId, now, reqs, workload, authVars, navVars>>

\* api.deleteTodo resolves
DeleteOk(s) ==
    /\ calls[s].pc = "delete"
    /\ calls' = [calls EXCEPT ![s] = NoHandler]
    /\ UNCHANGED <<local, toggles, todos, nextId, now, reqs, workload, authVars, navVars>>

\* api.deleteTodo rejects: this.todos.push(todo) and the sort
DeleteFail(s) ==
    /\ calls[s].pc = "delete"
    /\ local' = Sort(Append(local, calls[s].todo))
    /\ calls' = [calls EXCEPT ![s] = NoHandler]
    /\ UNCHANGED <<toggles, todos, nextId, now, reqs, workload, authVars, navVars>>

NextList ==
    \/ \E s \in Slots : LoadStart(s)
    \/ \E s \in Slots : LoadDone(s)
    \/ \E s \in Slots : CreateSubmit(s)
    \/ \E s \in Slots : CreateDone(s)
    \/ \E s \in Slots, i \in 1..(MaxLocal + MaxInFlight) : DeleteClick(s, i)
    \/ \E s \in Slots : DeleteOk(s)
    \/ \E s \in Slots : DeleteFail(s)

SpecList == InitList /\ [][NextList]_vars

\* ------------------------------------------------- the router and the session
\* the paths TodoApp.setupRouting registers
RoutePaths == {"/", "/login", "/register", "/todos"}

authRequired(path) == path = "/todos"
authRedirect(path) == path \in {"/login", "/register"}

\* what the address bar is given after the #
LocationHashes == {"", "/", "/login", "/register", "/todos", "login", "todos"}

\* path.substring(1) of a path that starts with "/"
Substring1(path) ==
    CASE path = "/" -> ""
      [] path = "/login" -> "login"
      [] path = "/register" -> "register"
      [] path = "/todos" -> "todos"
      [] OTHER -> path

\* router.navigate(path): window.location.hash = path without its leading "/";
\* a hashchange event is queued when the hash changes
navigate(router, path) ==
    [router EXCEPT !.hash = Substring1(path),
                   !.pending = @ \/ Substring1(path) # router.hash]

\* router.getCurrentPath()
getCurrentPath(router) == IF router.hash = "" THEN "/" ELSE router.hash

\* !!value
Truthy(value) == value \notin {Null, Undefined, ""}

\* api.setToken(token)
setToken(sess, token) ==
    [sess EXCEPT !.apiToken = token,
                 !.stored = IF Truthy(token) THEN token ELSE Null]

\* api.getToken()
getToken(sess) == IF Truthy(sess.apiToken) THEN sess.apiToken ELSE sess.stored

\* a router that takes every visitor for anonymous
NeverAuthenticated(sess) == sess.stored # sess.stored

\* router.isAuthenticated(): !!localStorage.getItem("token")
RouterIsAuthenticated(sess) == Truthy(sess.stored)

\* auth.isAuthenticated(): !!this.currentUser && !!api.getToken()
AuthIsAuthenticated(sess) == Truthy(sess.currentUser) /\ Truthy(getToken(sess))

\* auth.clearAuth()
clearAuth(sess) ==
    [setToken(sess, Null) EXCEPT !.currentUser = Null, !.stored = Null]

\* the answers of the auth routes: the envelope the README shows for register,
\* and user and token at the top level, where api.js and auth.js read them
Envelope == [ok |-> TRUE, token |-> Undefined, user |-> Undefined,
             data |-> [user |-> "alice", token |-> "jwt1"]]
Flat == [ok |-> TRUE, token |-> "jwt1", user |-> "alice",
         data |-> [user |-> Undefined, token |-> Undefined]]

\* what login, register and logout can be answered
Answers(kind) ==
    CASE kind = "register" -> {Envelope, NoResponse}
      [] kind = "login" -> {Envelope, Flat, NoResponse}
      [] OTHER -> {[NoResponse EXCEPT !.ok = TRUE], NoResponse}

\* the session once AuthManager.init has verified a token found in
\* localStorage: this.currentUser = response.user
InitSessions ==
    {NoSession,
     [apiToken |-> "jwt1", stored |-> "jwt1", currentUser |-> Envelope.user],
     [apiToken |-> "jwt1", stored |-> "jwt1", currentUser |-> Flat.user]}

InitNav ==
    /\ session \in InitSessions
    /\ nav = NoNav
    /\ authCall = NoAuthCall
    /\ local = <<>>
    /\ toggles = [s \in Slots |-> NoToggle]
    /\ ListAtRest
    /\ TodosAtRest
    /\ AuthAtRest

\* the address bar is given another hash
EnterHash(hash) ==
    /\ hash # nav.hash
    /\ nav' = [nav EXCEPT !.hash = hash, !.pending = TRUE]
    /\ UNCHANGED <<session, authCall, local, toggles, calls, todos, nextId, now, reqs,
                   workload, authVars>>

\* TodoApp.handleBeforeRouteChange(path, route): the path it navigates to and
\* returns false for, or Null to go on
handleBeforeRouteChange(sess, path) ==
    IF path \in RoutePaths /\ authRequired(path) /\ ~AuthIsAuthenticated(sess)
    THEN "/login"
    ELSE IF path \in RoutePaths /\ authRedirect(path) /\ AuthIsAuthenticated(sess)
    THEN "/todos"
    ELSE Null

\* the checks of Router.handleRouteChange before the handler: the path it
\* navigates to instead, or Null when the handler is to run
Guard(sess, path) ==
    IF authRequired(path) /\ ~RouterIsAuthenticated(sess) THEN "/login"
    ELSE IF authRedirect(path) /\ RouterIsAuthenticated(sess) THEN "/todos"
    ELSE Null

\* the route handlers of TodoApp: handleHomeRoute navigates, the others show
\* their page
Handler(router, sess, path) ==
    [(IF path = "/"
      THEN navigate(router, IF AuthIsAuthenticated(sess) THEN "/todos" ELSE "/login")
      ELSE router)
     EXCEPT !.currentRoute = path, !.ran = path]

\* router.handleNotFound()
handleNotFound(router, sess) ==
    navigate(router, IF RouterIsAuthenticated(sess) THEN "/todos" ELSE "/login")

\* Router.handleRouteChange, for a queued hashchange event
RouteChange ==
    /\ nav.pending
    /\ LET router == [nav EXCEPT !.pending = FALSE, !.ran = Null]
           path == getCurrentPath(nav)
       IN  nav' =
             IF handleBeforeRouteChange(session, path) # Null
             THEN navigate(router, handleBeforeRouteChange(session, path))
             ELSE IF path \notin RoutePaths THEN handleNotFound(router, session)
             ELSE IF Guard(session, path) # Null
             THEN navigate(router, Guard(session, path))
             ELSE Handler(router, session, path)
    /\ UNCHANGED <<session, authCall, local, toggles, calls, todos, nextId, now, reqs,
                   workload, authVars>>

\* handleLogin / handleRegister up to the await of api.login / api.register;
\* the call holds the answer that is under way
AuthSubmit(kind) ==
    /\ kind \in {"login", "register"}
    /\ authCall.pc = "idle"
    /\ \E response \in Answers(kind) :
          authCall' = [pc |-> kind, response |-> response]
    /\ UNCHANGED <<session, nav, local, toggles, calls, todos, nextId, now, reqs,
                   workload, authVars>>

\* api.login / api.register after the answer
apiLogin(sess, response) ==
    IF Truthy(response.token) THEN setToken(sess, response.token) ELSE sess

\* the answer arrives: api.login stores response.token, handleLogin stores
\* response.user and sets the timer; a failure goes to handleAuthError
AuthResolve ==
    /\ authCall.pc \in {"login", "register"}
    /\ IF authCall.response.ok
       THEN /\ session' = [apiLogin(session, authCall.response)
                             EXCEPT !.currentUser = authCall.response.user]
            /\ authCall' = [authCall EXCEPT !.pc = "redirect"]
       ELSE /\ authCall' = NoAuthCall
            /\ UNCHANGED session
    /\ UNCHANGED <<nav, local, toggles, calls, todos, nextId, now, reqs, workload,
                   authVars>>

\* the timer of handleLogin / handleRegister: router.navigate("/todos")
AuthRedirect ==
    /\ authCall.pc = "redirect"
    /\ nav' = navigate(nav, "/todos")
    /\ authCall' = NoAuthCall
    /\ UNCHANGED <<session, local, toggles, calls, todos, nextId, now, reqs, workload,
                   authVars>>

\* handleLogout up to the await of the POST in api.logout
LogoutStart ==
    /\ authCall.pc = "idle"
    /\ \E response \in Answers("logout") :
          authCall' = [pc |-> "logout", response |-> response]
    /\ UNCHANGED <<session, nav, local, toggles, calls, todos, nextId, now, reqs,
                   workload, authVars>>

\* a logout that forgets the token only when the server said yes
apiLogoutOnSuccess(sess, response) ==
    IF response.ok THEN setToken(sess, Null) ELSE sess

\* api.logout after the answer: finally { this.setToken(null) }
apiLogout(sess, response) == setToken(sess, Null)

\* api.logout settles, resolved or rejected
LogoutSettle ==
    /\ authCall.pc = "logout"
    /\ session' = apiLogout(session, authCall.response)
    /\ authCall' = [authCall EXCEPT !.pc = "settled"]
    /\ UNCHANGED <<nav, local, toggles, calls, todos, nextId, now, reqs, workload,
                   authVars>>

\* the finally block of handleLogout: clearAuth and router.navigate("/login")
LogoutFinish ==
    /\ authCall.pc = "settled"
    /\ session' = clearAuth(session)
    /\ nav' = navigate(nav, "/login")
    /\ authCall' = NoAuthCall
    /\ UNCHANGED <<local, toggles, calls, todos, nextId, now, reqs, workload, authVars>>

NextNav ==
    \/ \E hash \in LocationHashes : EnterHash(hash)
    \/ RouteChange
    \/ \E kind \in {"login", "register"} : AuthSubmit(kind)
    \/ AuthResolve
    \/ AuthRedirect
    \/ LogoutStart
    \/ LogoutSettle
    \/ LogoutFinish

SpecNav == InitNav /\ [][NextNav]_vars

\* ================================================================ properties
\* the tokens the gate lets through, and the ones it turns away
GoodTokens == {t \in Tokens : authenticateToken(t) # NoUser}
BadTokens == Tokens \ GoodTokens

\* slot s finishes its request in this step
Finishes(s) == InFlight(s) /\ ~InFlight(s)'

\* C1: every todo in the data of a successful GET /api/todos or
\* GET /api/todos/:id response carries the user_id of the authenticated caller,
\* whatever requests of other users were interleaved; a todo of another user is
\* never returned.
C1_OnlyOwnTodosReturned ==
    /\ \A token \in Tokens, id \in TodoIds :
          GetAnswer(token, id).status = 200 =>
             \A k \in DOMAIN GetAnswer(token, id).todos :
                /\ GetAnswer(token, id).todos[k].user_id = authenticateToken(token)
                /\ todos[GetAnswer(token, id).todos[k].id].user_id = authenticateToken(token)
    /\ \A s \in Slots :
          reqs[s].pc = "list:count" =>
             \A k \in DOMAIN ListAnswer(reqs[s]).todos :
                ListAnswer(reqs[s]).todos[k].user_id = authenticateToken(reqs[s].token)

\* a list of one user is being answered with a todo in it while the store holds
\* a todo of another user, and a GET of that other todo by the first user is
\* refused
C1_Witness ==
    \E s \in Slots, i \in DOMAIN todos :
       /\ reqs[s].pc = "list:count"
       /\ Len(ListAnswer(reqs[s]).todos) > 0
       /\ todos[i].user_id # reqs[s].user
       /\ GetAnswer(reqs[s].token, i).status = 403

\* C2: a PUT or DELETE of a user who is not the stored owner of the addressed
\* todo changes nothing in the store: every step that alters or removes a
\* record is the statement of a PUT or DELETE that the owner of that record
\* sent for that record, and no request of a non-owner ever gets to its
\* statement.
C2_NonOwnerWritesNothing ==
    [][\A i \in DOMAIN todos :
          /\ (i \notin DOMAIN todos' \/ todos'[i] # todos[i]) =>
                \E s \in Slots :
                   /\ Finishes(s)
                   /\ reqs[s].method \in {"PUT", "DELETE"}
                   /\ reqs[s].id = i
                   /\ authenticateToken(reqs[s].token) = todos[i].user_id
          /\ \A s \in Slots :
                (InFlight(s) /\ reqs[s].method \in {"PUT", "DELETE"} /\ reqs[s].id = i) =>
                   authenticateToken(reqs[s].token) = todos[i].user_id]_vars

\* a PUT and a DELETE of a non-owner for a stored todo are answered 403
C2_Witness ==
    \E token \in GoodTokens, i \in DOMAIN todos, body \in UpdateBodies :
       /\ authenticateToken(token) # todos[i].user_id
       /\ UpdateFields(body) # {}
       /\ UpdateArrive(token, i, body).status = 403
       /\ DeleteArrive(token, i).status = 403
       /\ todos[i].completed = "i:1"

\* C3 as stated: GET, PUT and DELETE on /api/todos/:id by an authenticated user
\* are answered 403 when the todo exists and belongs to another user, and 404
\* when no todo has that id.
C3_AsStated ==
    \A token \in GoodTokens, id \in TodoIds, body \in UpdateBodies :
       LET answers == {GetAnswer(token, id), UpdateArrive(token, id, body),
                       DeleteArrive(token, id)}
       IN  /\ (id \in DOMAIN todos /\ todos[id].user_id # authenticateToken(token)) =>
                 \A a \in answers : a.status = 403
           /\ id \notin DOMAIN todos => \A a \in answers : a.status = 404

\* C3 (amended): the same for GET, for DELETE, and for a PUT whose body passes
\* validateTodoUpdate; 404 is decided before 403.  A PUT whose body fails
\* validation is answered 400 whether or not the todo exists or is the
\* caller's.
C3_ForbiddenOrNotFound ==
    \A token \in GoodTokens, id \in TodoIds, body \in UpdateBodies :
       LET answers == {GetAnswer(token, id), DeleteArrive(token, id)}
                        \cup (IF validateTodoUpdate(body)
                              THEN {UpdateArrive(token, id, body)} ELSE {})
       IN  /\ (id \in DOMAIN todos /\ todos[id].user_id # authenticateToken(token)) =>
                 \A a \in answers : a.status = 403
           /\ id \notin DOMAIN todos => \A a \in answers : a.status = 404
           /\ ~validateTodoUpdate(body) => UpdateArrive(token, id, body).status = 400

\* one user's todo is stored and another id is not: the other user gets 403
\* for the first and 404 for the second
C3_Witness ==
    \E token \in GoodTokens, i \in DOMAIN todos, j \in TodoIds \ DOMAIN todos :
       /\ todos[i].user_id # authenticateToken(token)
       /\ GetAnswer(token, i).status = 403
       /\ GetAnswer(token, j).status = 404
       /\ \E body \in UpdateBodies :
             /\ UpdateArrive(token, i, body).status = 403
             /\ UpdateArrive(token, j, body).status = 404

\* C4: a request without a token, or with a token that fails verification, is
\* answered 401 by the gate on every route of the router; it reaches neither a
\* validator nor a handler, no statement runs for it and none is ever queued.
C4_GateBeforeEveryRoute ==
    /\ \A token \in BadTokens :
          /\ \A query \in Queries :
                Arrive("LIST", token, validateTodoQuery(query)) =
                   Reply(401, "UNAUTHENTICATED", "gate")
          /\ \A body \in CreateBodies :
                CreateAnswer(token, body) = Reply(401, "UNAUTHENTICATED", "gate")
          /\ \A id \in TodoIds :
                /\ GetAnswer(token, id) = Reply(401, "UNAUTHENTICATED", "gate")
                /\ DeleteArrive(token, id) = Reply(401, "UNAUTHENTICATED", "gate")
                /\ \A body \in UpdateBodies :
                      UpdateArrive(token, id, body) = Reply(401, "UNAUTHENTICATED", "gate")
    /\ \A s \in Slots : InFlight(s) => reqs[s].token \in GoodTokens

\* a todo is stored, and requests for it without a token, with an expired token
\* and with the token of a user that no longer exists are answered 401
C4_Witness ==
    \E i \in DOMAIN todos :
       /\ GetAnswer(NoToken, i).status = 401
       /\ DeleteArrive([sub |-> "u1", state |-> "expired"], i).status = 401
       /\ \A body \in UpdateBodies :
             UpdateArrive([sub |-> "ghost", state |-> "valid"], i, body).status = 401

\* the ids and the serialized todos GET /api/todos?status=... returns to userId
\* when the page is large enough for all of them
Listed(userId, status) ==
    UNION {{toJSON(page[k]) : k \in DOMAIN page} :
             page \in findByUserId(todos, userId,
                                   [status |-> status, limit |-> LimitMax, offset |-> 0])}

ListedIds(userId, status) == {t.id : t \in Listed(userId, status)}

\* C5: status=pending never returns a todo with completed=true, status=completed
\* never returns one with completed=false, and every todo returned under
\* status=all is returned under exactly one of pending and completed.
C5_AsStated ==
    \A u \in Users :
       /\ \A t \in Listed(u, "pending") : t.completed = FALSE
       /\ \A t \in Listed(u, "completed") : t.completed = TRUE
       /\ ListedIds(u, "all") = ListedIds(u, "pending") \cup ListedIds(u, "completed")
       /\ ListedIds(u, "pending") \cap ListedIds(u, "completed") = {}

\* the number of rows of a user that a status filter selects
Selected(userId, status) ==
    Cardinality({i \in DOMAIN todos :
                   /\ todos[i].user_id = userId
                   /\ status = "completed" => todos[i].completed = "i:1"
                   /\ status = "pending" => todos[i].completed = "i:0"})

\* ten rows, as in the example of the pagination contract
TenRows == [k \in 1..10 |-> k]

\* C6: when no write comes between the two statements of GET /api/todos,
\* pagination.total is the number of the caller's todos the status filter
\* selects, whatever limit and offset are, hasMore is (offset + limit < total),
\* and the page holds min(limit, max(0, total - offset)) todos; with 10 todos and
\* limit 3, offset 9 gives 1 todo and no more, offset 6 gives 3 todos and more.
C6_Pagination ==
    /\ \A s \in Slots :
          (workload = "serial" /\ reqs[s].pc = "list:count") =>
             LET a == ListAnswer(reqs[s])
                 q == reqs[s].query
                 n == Selected(reqs[s].user, q.status)
             IN  /\ a.pagination.total = n
                 /\ a.pagination.limit = q.limit /\ a.pagination.offset = q.offset
                 /\ a.pagination.hasMore = (q.offset + q.limit < n)
                 /\ a.pagination.hasMore = calculatePagination(n, q.limit, q.offset).hasMore
                 /\ Len(a.todos) = Min(q.limit, Max(0, n - q.offset))
    /\ Len(LimitOffset(TenRows, 3, 9)) = 1 /\ ~calculatePagination(10, 3, 9).hasMore
    /\ Len(LimitOffset(TenRows, 3, 6)) = 3 /\ calculatePagination(10, 3, 6).hasMore

\* the last page of a list is being answered: offset + limit reaches the total
\* exactly, one todo is on the page and hasMore is false
C6_Witness ==
    \E s \in Slots :
       /\ workload = "serial" /\ reqs[s].pc = "list:count"
       /\ reqs[s].query.offset > 0
       /\ ListAnswer(reqs[s]).pagination.total = reqs[s].query.offset + reqs[s].query.limit
       /\ Len(ListAnswer(reqs[s]).todos) = 1
       /\ ~ListAnswer(reqs[s]).pagination.hasMore

\* C7: the UPDATE of Todo.update changes, in the addressed record, only those of
\* title, description and completed that the body supplies, and updated_at; id,
\* user_id, created_at and every field the body leaves out keep their stored
\* values, no other record changes, and none is added or removed.
C7_PartialUpdate ==
    [][\A s \in Slots :
          (reqs[s].pc = "put:update" /\ Finishes(s)) =>
             /\ DOMAIN todos' = DOMAIN todos
             /\ \A i \in DOMAIN todos :
                   IF i # reqs[s].todo.id THEN todos'[i] = todos[i]
                   ELSE /\ todos'[i].id = todos[i].id
                        /\ todos'[i].user_id = todos[i].user_id
                        /\ todos'[i].created_at = todos[i].created_at
                        /\ reqs[s].body.title = Undefined => todos'[i].title = todos[i].title
                        /\ reqs[s].body.description = Undefined =>
                              todos'[i].description = todos[i].description
                        /\ reqs[s].body.completed = Undefined =>
                              todos'[i].completed = todos[i].completed
                        /\ reqs[s].body.title # Undefined => todos'[i].title = reqs[s].body.title
                        /\ todos'[i].updated_at = now]_vars

\* a todo was updated, a second after its creation, by a body that supplied
\* only completed: it still has the title it was created with
C7_Witness ==
    \E i \in DOMAIN todos :
       /\ todos[i].completed = "i:1"
       /\ todos[i].title = "a" /\ todos[i].description = Null
       /\ todos[i].updated_at > todos[i].created_at
       /\ Cardinality(DOMAIN todos) > 1

\* C8: a POST /api/todos answered 201 stores exactly one new record; its id is
\* the fresh uuid, which no stored record has, its user_id is the caller's
\* whatever the body carries, its completed is false, and the records stored
\* before are unchanged.
C8_CreateStoresOneNew ==
    [][nextId' # nextId =>
          /\ \E token \in GoodTokens, body \in CreateBodies :
                todos' = InsertTodo(todos, CreatedTodo(token, body), now)
          /\ \A token \in Tokens, body \in CreateBodies :
                (/\ CreateAnswer(token, body).status = 201
                 /\ todos' = InsertTodo(todos, CreatedTodo(token, body), now)) =>
                   /\ nextId \notin DOMAIN todos
                   /\ DOMAIN todos' = DOMAIN todos \cup {nextId}
                   /\ todos'[nextId].id = nextId
                   /\ todos'[nextId].user_id = authenticateToken(token)
                   /\ todos'[nextId].completed = "i:0"
                   /\ CreateAnswer(token, body).todos[1].completed = FALSE
                   /\ \A i \in DOMAIN todos : todos'[i] = todos[i]]_vars

\* a todo of u2 is stored under id 1 and u1 is about to be answered 201 for a
\* body that carries id 1, user_id u2 and completed true
C8_Witness ==
    /\ 1 \in DOMAIN todos /\ todos[1].user_id = "u2"
    /\ \E body \in CreateBodies :
          /\ body.id = 1 /\ body.user_id = "u2" /\ body.completed = JsTrue
          /\ nextId <= MaxTodos
          /\ CreateAnswer([sub |-> "u1", state |-> "valid"], body).status = 201

\* C9: with one request at a time: right after POST /api/todos is answered 201
\* a GET of the new id by the same user returns it with completed=false; right
\* after a PUT with {completed: true} is answered 200 a GET of that id returns
\* completed=true; and once a DELETE was answered 200 a GET of that id is
\* answered 404 in every later state.
C9_CreateToggleDelete ==
    [][workload = "serial" =>
          \A token \in GoodTokens, id \in TodoIds :
             /\ \A body \in CreateBodies :
                   (/\ nextId' # nextId /\ id = nextId
                    /\ todos' = InsertTodo(todos, CreatedTodo(token, body), now)) =>
                      /\ GetAnswer(token, id)'.status = 200
                      /\ GetAnswer(token, id)'.todos[1].id = id
                      /\ GetAnswer(token, id)'.todos[1].completed = FALSE
             /\ \A s \in Slots :
                   (/\ reqs[s].pc = "put:update" /\ Finishes(s)
                    /\ reqs[s].token = token /\ reqs[s].id = id
                    /\ reqs[s].body.completed = JsTrue) =>
                      /\ GetAnswer(token, id)'.status = 200
                      /\ GetAnswer(token, id)'.todos[1].completed = TRUE
             /\ \A s \in Slots :
                   (/\ reqs[s].pc = "delete:run" /\ Finishes(s)
                    /\ reqs[s].token = token /\ reqs[s].id = id) =>
                      GetAnswer(token, id)'.status = 404
             /\ (id < nextId /\ GetAnswer(token, id).status = 404) =>
                   GetAnswer(token, id)'.status = 404]_vars

\* with one request at a time, a todo was created, another one was completed
\* and is returned so, and the first was deleted and is answered 404
C9_Witness ==
    /\ workload = "serial"
    /\ nextId > 2
    /\ 1 \notin DOMAIN todos
    /\ \E token \in GoodTokens :
          /\ GetAnswer(token, 1).status = 404
          /\ GetAnswer(token, 2).status = 200
          /\ GetAnswer(token, 2).todos[1].completed = TRUE

\* C10: a todo is created with completed false, and once its record has been
\* removed no step of any request, whether it arrives later or had read the
\* todo before the DELETE ran, makes a record with that id exist again.
C10_DeletedIsTerminal ==
    [][/\ nextId' # nextId =>
             (nextId \in DOMAIN todos' /\ todos'[nextId].completed = "i:0")
       /\ \A id \in TodoIds :
             (id < nextId /\ id \notin DOMAIN todos) => id \notin DOMAIN todos'
       /\ \A id \in TodoIds : id >= nextId => id \notin DOMAIN todos]_vars

\* a PUT read its todo, a DELETE then removed the record, and the UPDATE of the
\* PUT is still to run
C10_Witness ==
    \E s \in Slots :
       /\ reqs[s].pc = "put:update"
       /\ reqs[s].todo.id < nextId
       /\ reqs[s].todo.id \notin DOMAIN todos

\* a column of the todos table that a PUT can write
Columns == {"title", "description", "completed"}

\* the value the UPDATE binds for a column the body supplies
Bound(column, value) == IF column = "completed" THEN bindCompleted(value) ELSE value

\* C11: when PUT requests on one todo interleave, every UPDATE statement that
\* runs sets each column its body supplies to the supplied value and leaves each
\* other column at the value stored just before it, whatever the handler read
\* earlier: each column ends with the value of the last UPDATE that supplied it,
\* updates of disjoint columns both take effect, and a column supplied by
\* neither is unchanged.
C11_LastWriteWinsPerField ==
    [][\A s \in Slots :
          (/\ reqs[s].pc = "put:update" /\ Finishes(s)
           /\ reqs[s].todo.id \in DOMAIN todos) =>
             \A c \in Columns :
                todos'[reqs[s].todo.id][c] =
                   IF reqs[s].body[c] # Undefined
                   THEN Bound(c, reqs[s].body[c])
                   ELSE todos[reqs[s].todo.id][c]]_vars

\* two PUTs on one todo interleave: the one that supplies only the title read
\* the todo as pending, the UPDATE of another PUT has set completed since, and
\* the UPDATE of the first is still to run
C11_Witness ==
    \E s \in Slots :
       /\ reqs[s].pc = "put:update"
       /\ reqs[s].todo.id \in DOMAIN todos
       /\ reqs[s].body.title = "b" /\ reqs[s].body.completed = Undefined
       /\ ~Boolean(reqs[s].todo.completed)
       /\ todos[reqs[s].todo.id].completed = "i:1"
       /\ todos[reqs[s].todo.id].title = "a"

\* C12: for an authenticated caller, a GET /api/todos whose query fails
\* validation and a POST /api/todos or PUT /api/todos/:id whose body fails
\* validation are answered 400 by the validator, before the handler and so
\* before any statement, whether or not the addressed todo exists or is the
\* caller's; every request that is waiting for a statement passed its
\* validator.
C12_ValidationBeforeStore ==
    /\ \A token \in GoodTokens :
          /\ \A query \in Queries :
                ~validateTodoQuery(query) =>
                   Arrive("LIST", token, validateTodoQuery(query)) =
                      Reply(400, "VALIDATION_ERROR", "validate")
          /\ \A body \in CreateBodies :
                ~validateTodoCreation(body) =>
                   CreateAnswer(token, body) = Reply(400, "VALIDATION_ERROR", "validate")
          /\ \A id \in TodoIds, body \in UpdateBodies :
                ~validateTodoUpdate(body) =>
                   UpdateArrive(token, id, body) =
                      Reply(400, "VALIDATION_ERROR", "validate")
    /\ \A s \in Slots :
          /\ reqs[s].method = "PUT" =>
                \E body \in UpdateBodies :
                   validateTodoUpdate(body) /\ reqs[s].body = sanitizeBody(body)
          /\ reqs[s].method = "LIST" =>
                \E query \in Queries :
                   validateTodoQuery(query) /\ reqs[s].query = normalizeQuery(query)

\* a todo is stored and another id is not; a user who does not own the todo
\* sends a PUT with an invalid body for each and is answered 400 both times,
\* as are a POST without a title and a list with an unknown status
C12_Witness ==
    \E token \in GoodTokens, i \in DOMAIN todos, j \in TodoIds \ DOMAIN todos :
       /\ todos[i].user_id # authenticateToken(token)
       /\ \E body \in UpdateBodies :
             /\ ~validateTodoUpdate(body)
             /\ UpdateArrive(token, i, body).status = 400
             /\ UpdateArrive(token, j, body).status = 400
       /\ CreateAnswer(token, EmptyBody).status = 400
       /\ \E query \in Queries :
             /\ query.status = "done"
             /\ Arrive("LIST", token, validateTodoQuery(query)).status = 400

C14_AsStated ==
    \A i \in DOMAIN todos :
       /\ StrLen(todos[i].title) >= 1 /\ StrLen(todos[i].title) <= 100
       /\ todos[i].description = Null \/ StrLen(todos[i].description) <= 500

\* C17: the user_id of every stored todo is the id of a stored user: a todo is
\* only created with the id the gate resolved to a row of the users table, no
\* statement changes the user_id of a todo, and none removes a user.
C17_OwnerIsStoredUser ==
    /\ \A i \in DOMAIN todos : todos[i].user_id \in Users
    /\ \A s \in Slots : InFlight(s) => reqs[s].user \in Users

\* both users own a stored todo, and a POST with a valid token of a user that
\* is not stored is turned away
C17_Witness ==
    /\ \E i, j \in DOMAIN todos : todos[i].user_id = "u1" /\ todos[j].user_id = "u2"
    /\ CreateAnswer([sub |-> "ghost", state |-> "valid"],
                    [EmptyBody EXCEPT !.title = "a"]).status = 401

\* C15: when a statement of the todo store fails while a handler waits for it,
\* the handler's catch block answers 500 with success=false and the message and
\* code fixed for that handler, the same whatever the error was and with
\* nothing of it; the request is answered there and only there, it ends with
\* that answer, and the store is as the failed statement found it.
C15_StoreFailureIs500 ==
    [][\A s \in Slots :
          /\ reqs[s].pc = "catch" =>
                /\ reqs[s].err \in StoreErrors
                /\ CatchAnswer(reqs[s]).status = 500
                /\ CatchAnswer(reqs[s]).code = ErrorBody(reqs[s].method, reqs[s].err).code
                /\ CatchAnswer(reqs[s]).todos = <<>>
                /\ DOMAIN ErrorBody(reqs[s].method, reqs[s].err) = {"success", "message", "code"}
                /\ ErrorBody(reqs[s].method, reqs[s].err).success = FALSE
                /\ ErrorBody(reqs[s].method, reqs[s].err).code \in
                      {"GET_TODOS_ERROR", "CREATE_TODO_ERROR", "GET_TODO_ERROR",
                       "UPDATE_TODO_ERROR", "DELETE_TODO_ERROR"}
                /\ \A e \in StoreErrors :
                      /\ ErrorBody(reqs[s].method, e) = ErrorBody(reqs[s].method, reqs[s].err)
                      /\ ErrorBody(reqs[s].method, reqs[s].err).message # e
                      /\ ErrorBody(reqs[s].method, reqs[s].err).code # e
                /\ reqs'[s] = reqs[s] \/ reqs'[s] = Idle
                /\ todos' = todos
          /\ (reqs[s].pc # "catch" /\ reqs'[s].pc = "catch") =>
                /\ reqs[s].pc \in {"idle", "list:count", "put:update", "delete:run"}
                /\ reqs'[s].method \in Methods
                /\ reqs[s].pc # "idle" => reqs'[s].method = reqs[s].method
                /\ todos' = todos]_vars

\* the UPDATE of a PUT on a stored todo failed with a disk error and the catch
\* block of the handler is about to answer; the todo is as it was read
C15_Witness ==
    \E s \in Slots, i \in DOMAIN todos :
       /\ reqs[s].pc = "catch" /\ reqs[s].method = "PUT"
       /\ reqs[s].err = "SQLITE_IOERR: disk I/O error"
       /\ todos[i].user_id = reqs[s].user
       /\ todos[i].updated_at = todos[i].created_at

\* C16: after any interleaving of registrations no two stored users share a
\* username and no two share an email, and a User.create whose username or
\* email is already taken fails on the unique constraint and stores no user
C16_UniqueUsers ==
    [][/\ \A a, b \in DOMAIN users' :
            a # b => /\ users'[a].username # users'[b].username
                     /\ users'[a].email # users'[b].email
        /\ \A s \in Slots :
            (/\ regs[s].pc = "insert"
             /\ regs'[s].pc # "insert"
             /\ \/ usernameExists(users, regs[s].user.username)
                \/ emailExists(users, regs[s].user.email))
            => /\ regs'[s].pc = "rejected"
               /\ regs'[s].err = "SQLITE_CONSTRAINT: UNIQUE constraint failed"
               /\ users' = users]_vars

\* a registration was rejected for a username that another email holds
C16_Witness ==
    \E s \in Slots, k \in DOMAIN users :
       /\ regs[s].pc = "rejected"
       /\ users[k].username = regs[s].user.username
       /\ users[k].email # regs[s].user.email
       /\ Cardinality(DOMAIN users) = 1

\* the Users a response can carry: the stored ones and the ones being created
LiveUsers == {users[k] : k \in DOMAIN users} \cup
             {regs[s].user : s \in {t \in Slots : regs[t].pc # "idle"}}

\* every digest bcrypt can give a password that was sent
Hashes == {bcryptHash(password, salt) : password \in Passwords, salt \in Salts}

\* C19: user.toJSON() has neither the password hash nor the plaintext
\* password, and a row of the users table holds the hash and never the
\* plaintext
C19_NoPasswordLeaves ==
    /\ \A user \in LiveUsers :
         /\ DOMAIN UserToJSON(user) \cap {"password_hash", "password"} = {}
         /\ \A f \in DOMAIN UserToJSON(user) \ {"created_at", "updated_at"} :
              UserToJSON(user)[f] \notin Passwords \cup {user.password_hash}
    /\ \A k \in DOMAIN users :
         /\ DOMAIN users[k] = {"id", "username", "email", "password_hash",
                               "created_at", "updated_at"}
         /\ users[k].password_hash \in Hashes \ Passwords
         /\ \A f \in {"id", "username", "email"} : users[k][f] \notin Passwords

\* two users are stored, with different passwords and salts
C19_Witness ==
    \E a, b \in DOMAIN users :
       /\ users[a].password_hash = bcryptHash("secret1", "saltA")
       /\ users[b].password_hash = bcryptHash("hunter22", "saltB")

\* C18: verifying an issued token succeeds, and gives its user, at the moment
\* of issuance and at any time less than 24 hours after it, and fails with
\* EXPIRED once 24 hours plus one second have elapsed
C18_TokenLifetime ==
    \A token \in issued :
       /\ token.exp = token.iat + 86400
       /\ clock - token.iat < 86400 =>
            \A r \in verifyAt(token, clock) : r.ok /\ r.userId = token.sub
       /\ clock - token.iat >= 86400 + 1 =>
            \A r \in verifyAt(token, clock) : ~r.ok /\ r.why = "EXPIRED"

\* a token one second past its 24 hours next to one issued twelve hours ago
C18_Witness ==
    \E old, new \in issued :
       /\ clock - old.iat = 86400 + 1
       /\ clock - new.iat = 43200

\* the local todo whose checkbox a running handler was started from
Clicked(list, s) == {i \in DOMAIN list : DataTodoId(list[i]) = toggles[s].dataset}

\* C20, as stated: handleToggleTodo sets the clicked todo's local completed
\* value to the requested value before the server answers; when the request
\* fails the todo's local completed value is again the value it had before
\* the toggle; no other local todo is changed
C20_AsStated ==
    [][\A s \in Slots :
         /\ (~Toggling(s) /\ Toggling(s)') =>
              \A i \in DOMAIN local :
                 IF DataTodoId(local[i]) = toggles'[s].dataset
                 THEN local'[i].completed = toggles'[s].completed
                 ELSE local'[i] = local[i]
         /\ (Toggling(s) /\ ~Toggling(s)' /\ local' # local) =>
              \A i \in DOMAIN local :
                 IF i \in Clicked(local, s)
                 THEN local'[i].completed = toggles[s].was
                 ELSE local'[i] = local[i]]_vars

\* C25, as stated: a 200 answer to PUT or DELETE /api/todos/:id means the
\* statement ran on a record that was stored at that moment; of two
\* interleaved DELETEs of one todo at most one is answered 200, and a PUT
\* answered 200 changed a stored record even when a DELETE interleaves
C25_AsStated ==
    [][\A s \in Slots :
         (/\ reqs[s].pc \in {"delete:run", "put:update"}
          /\ reqs'[s].pc = "idle"
          /\ (IF reqs[s].pc = "delete:run" THEN DeleteAnswer(reqs[s])
              ELSE UpdateAnswer(reqs[s])).status = 200)
         => reqs[s].todo.id \in DOMAIN todos]_vars

\* C26, as stated: the todos and pagination.total of a GET /api/todos response
\* describe one store state, todos.length = min(limit, max(0, total - offset)),
\* whatever other requests write while the list request is handled
C26_AsStated ==
    [][\A s \in Slots :
         (reqs[s].pc = "list:count" /\ reqs'[s].pc = "idle")
         => Len(ListAnswer(reqs[s]).todos) =
              Min(ListAnswer(reqs[s]).pagination.limit,
                  Max(0, ListAnswer(reqs[s]).pagination.total
                           - ListAnswer(reqs[s]).pagination.offset))]_vars

\* C27, as stated: the todo of a 201 POST /api/todos or 200 PUT /api/todos/:id
\* response has the id, user_id, title, description, completed, created_at and
\* updated_at of the record the request stored, for every valid body, also one
\* that carries id or user_id
C27_AsStated ==
    [][/\ \A token \in GoodTokens, body \in CreateBodies, id \in TodoIds :
            (/\ id = nextId
             /\ nextId' = nextId + 1
             /\ CreateAnswer(token, body).status = 201
             /\ todos' = InsertTodo(todos, CreatedTodo(token, body), now))
            => CreateAnswer(token, body).todos[1] = toJSON(todos'[id])
        /\ \A s \in Slots :
            (/\ reqs[s].pc = "put:update"
             /\ reqs'[s].pc = "idle"
             /\ reqs[s].todo.id \in DOMAIN todos')
            => UpdateAnswer(reqs[s]).todos[1] = toJSON(todos'[reqs[s].todo.id])]_vars

\* C21, as stated: when two toggles of one todo were under way together, the
\* todo's local completed value after both responses is the one the response
\* that arrived last determines: the requested value of that toggle when it
\* succeeded, the value the todo had before that toggle when it failed
C21_AsStated ==
    [][\A s \in Slots :
         (/\ Toggling(s) /\ ~Toggling(s)'
          /\ toggles[s].raced
          /\ \A t \in Slots \ {s} :
                ~(Toggling(t) /\ toggles[t].dataset = toggles[s].dataset))
         => \A i \in Clicked(local, s) :
               /\ ToggleOk(s) => local'[i].completed = toggles[s].completed
               /\ ToggleFail(s) => local'[i].completed = toggles[s].was]_vars

\* the list without its i-th todo
Without(list, i) == [k \in 1..(Len(list) - 1) |-> IF k < i THEN list[k] ELSE list[k + 1]]

\* the todos of a list, each with the number of times the list holds it
Holds(list) ==
    [t \in {list[i] : i \in DOMAIN list} |->
       Cardinality({i \in DOMAIN list : list[i] = t})]

\* C24, as stated: handleDeleteTodo removes the todo whose delete button was
\* clicked from the local list before the server answers; when the request
\* fails the list again holds the todos it held before the delete, newest
\* created first
C24_AsStated ==
    /\ [](\A i \in DOMAIN local :
            /\ Find(local, parseInt(DataTodoId(local[i]))) # 0
            /\ FilterOut(local, parseInt(DataTodoId(local[i]))) = Without(local, i))
    /\ [][\A s \in Slots :
            (calls[s].pc = "delete" /\ calls'[s].pc = "idle" /\ local' # local)
            => /\ Holds(local') = Holds(Append(local, calls[s].todo))
               /\ NewestFirst(local')]_vars

\* C30, as stated: TodoManager's local list never holds two entries with the
\* same id, whatever the interleaving of loadTodos, create and delete
C30_AsStated ==
    \A i, j \in DOMAIN local : i # j => local[i].id # local[j].id

C23_LogoutClearsSession ==
    [][/\ (authCall.pc = "logout" /\ authCall'.pc = "settled")
            => getToken(session') = Null /\ session'.stored = Null
       /\ (authCall.pc = "settled" /\ authCall'.pc = "idle")
            => /\ getToken(session') = Null /\ session'.stored = Null
               /\ session'.currentUser = Null
               /\ ~AuthIsAuthenticated(session')
               /\ ~RouterIsAuthenticated(session')]_vars

\* the logout request of an authenticated user has failed and api.logout has
\* settled
C23_Witness ==
    /\ authCall.pc = "settled"
    /\ ~authCall.response.ok
    /\ session.currentUser = "alice"
    /\ session.stored = Null

\* C28, as stated: for every registered path p, after router.navigate(p)
\* getCurrentPath() is p, so that the route change that follows finds the
\* handler registered for p
C28_AsStated ==
    [][\A p \in RoutePaths :
         (/\ AuthRedirect \/ LogoutFinish
          /\ nav' = navigate(nav, p))
         => getCurrentPath(nav') = p /\ getCurrentPath(nav') \in RoutePaths]_vars

\* C29, as stated: after api.login or api.register has resolved with the
\* envelope {success, message, data: {user, token}}, getToken() gives that
\* token and localStorage holds it, and after handleLogin the client is
\* authenticated and the current user is the user of the answer
C29_AsStated ==
    [][(/\ authCall.pc \in {"login", "register"}
        /\ authCall.response = Envelope
        /\ authCall'.pc = "redirect")
       => /\ getToken(session') = Envelope.data.token
          /\ session'.stored = Envelope.data.token
          /\ session'.currentUser = Envelope.data.user
          /\ AuthIsAuthenticated(session')]_vars
====
